---- MODULE Spec2Model ----
(***************************************************************************)
(* A model of the CPU raytracer of src/raytracing/src: the adaptive        *)
(* renderer (main.rs render_adaptive), the camera (camera.rs), the main    *)
(* loop (main.rs main), and the ray/cube intersection with the shader      *)
(* (cube.rs ray_intersect, main.rs cast_ray / cast_shadow).                *)
(*                                                                         *)
(* f32 quantities are modelled in fixed point:                             *)
(*   angles            in microradians (1.5 rad = 1500000),                *)
(*   unit vectors      in thousandths  (a unit vector has length 1000),    *)
(*   positions         in ten-thousandths (ORIGIN_BIAS 1e-4 = 1, a cube of *)
(*                     size 1.0 = 10000),                                  *)
(*   render scales     in fortieths    (0.125 = 5, 0.95 = 38, 1.0 = 40).   *)
(* Each part of the program has its own specification (SpecRender,         *)
(* SpecCamera, SpecLoop, SpecIntersect, SpecRay); each leaves the variables *)
(* of the other parts at their initial values.                             *)
(***************************************************************************)
EXTENDS Integers, Sequences, FiniteSets, TLC

VARIABLES
    fb,      \* render_adaptive: the framebuffer and the position in the loops
    cam,     \* the Camera struct
    camLog,  \* camera: the last operation applied, its arguments, and the counts
    lp,      \* main: the loop's locals and its position
    ix,      \* Cube::ray_intersect: a cube, a ray, and the Intersect returned
    ry       \* cast_ray: a scene, a light, a primary ray, and what the call found

vars == <<fb, cam, camLog, lp, ix, ry>>

----------------------------------------------------------------------------
(* Arithmetic helpers *)

Abs(a) == IF a < 0 THEN -a ELSE a

Min2(a, b) == IF a < b THEN a ELSE b

Max2(a, b) == IF a > b THEN a ELSE b

\* f32::round on a quotient n/d (d > 0): nearest integer, halves away from zero
RoundDiv(n, d) == IF n >= 0 THEN (2 * n + d) \div (2 * d) ELSE -((2 * (-n) + d) \div (2 * d))

\* f32::ceil on a quotient n/d of positive integers
CeilDiv(n, d) == (n + d - 1) \div d

----------------------------------------------------------------------------
(* render_adaptive (main.rs 214-343) *)

\* bounds of the framebuffer sizes explored
MaxW == 5

MaxH == 4

\* render scales are multiples of 1/ScaleDen: 0.125 = 5/40, 0.5 = 20/40, 0.95 = 38/40
ScaleDen == 8 * 5

\* the threshold 0.95 of the full-resolution path, in fortieths
FullResScale == (95 * ScaleDen) \div 100

\* ((width as f32 * render_scale).round() as u32).max(1).min(width)
RenderSize(w, s) == Min2(Max2(RoundDiv(w * s, ScaleDen), 1), w)

\* a step rounded down, which leaves the last columns and rows to the edge passes
StepFloor(w, rw) == w \div rw

\* (width as f32 / render_width as f32).ceil() as u32
Step(w, rw) == CeilDiv(w, rw)

Pixels(w, h) == (0 .. w - 1) \X (0 .. h - 1)

\* a block loop whose ranges include their end (start_x ..= end_x)
BlockPixelsInclusive(x, y, sx, sy, w, h) ==
    { p \in Pixels(w, h) :
        /\ p[1] >= x * sx /\ p[1] <= Min2((x + 1) * sx, w)
        /\ p[2] >= y * sy /\ p[2] <= Min2((y + 1) * sy, h) }

\* the pixels one iteration (x, y) of the block loop passes to set_pixel:
\* start_x..end_x by start_y..end_y, the ends clamped to the framebuffer

BlockPixels(x, y, sx, sy, w, h) ==
    { p \in Pixels(w, h) :
        /\ p[1] >= x * sx /\ p[1] < Min2((x + 1) * sx, w)
        /\ p[2] >= y * sy /\ p[2] < Min2((y + 1) * sy, h) }

\* the pixels of the right-edge pass: 0..height x last_rendered_x..width
RightEdgePixels(lastX, w, h) == { p \in Pixels(w, h) : p[1] >= lastX }

\* the pixels of the bottom-edge pass: last_rendered_y..height x 0..last_rendered_x
BottomEdgePixels(lastX, lastY, w, h) == { p \in Pixels(w, h) : p[2] >= lastY /\ p[1] < lastX }

\* framebuffer.set_pixel on every pixel of ps, with the current colour that of ray r
SetPixels(px, ps, r) ==
    [p \in DOMAIN px |-> IF p \in ps THEN [n |-> px[p].n + 1, ray |-> r] ELSE px[p]]

NoRay == <<"none", 0, 0>>

FbIdle == [pc |-> "idle", w |-> 1, h |-> 1, s |-> ScaleDen, rw |-> 1, rh |-> 1,
           sx |-> 1, sy |-> 1, x |-> 0, y |-> 0, rays |-> 0, empty |-> 0,
           px |-> [p \in Pixels(1, 1) |-> [n |-> 0, ray |-> NoRay]]]

\* a cleared framebuffer of any size up to the bounds and any scale in (0, 1]
RenderStart ==
    \E w \in 1 .. MaxW, h \in 1 .. MaxH, s \in 1 .. ScaleDen :
        fb = [pc |-> "start", w |-> w, h |-> h, s |-> s, rw |-> 0, rh |-> 0,
              sx |-> 0, sy |-> 0, x |-> 0, y |-> 0, rays |-> 0, empty |-> 0,
              px |-> [p \in Pixels(w, h) |-> [n |-> 0, ray |-> NoRay]]]

\* lines 221-232 and 253-254: the sizes, and the choice of the path
RenderBegin ==
    /\ fb.pc = "start"
    /\ LET rw == RenderSize(fb.w, fb.s)
           rh == RenderSize(fb.h, fb.s)
       IN  fb' = IF fb.s >= FullResScale
                 THEN [fb EXCEPT !.pc = "full", !.rw = rw, !.rh = rh]
                 ELSE [fb EXCEPT !.pc = "block", !.rw = rw, !.rh = rh,
                                 !.sx = Step(fb.w, rw), !.sy = Step(fb.h, rh)]

\* the advance of a loop `for y in 0..ny { for x in 0..nx {` after iteration (x, y)
LoopNext(f, nx, ny, after) ==
    IF f.x + 1 < nx THEN [f EXCEPT !.x = f.x + 1]
    ELSE IF f.y + 1 < ny THEN [f EXCEPT !.x = 0, !.y = f.y + 1]
    ELSE [f EXCEPT !.x = 0, !.y = 0, !.pc = after]

\* lines 234-250: one iteration of the full-resolution loop
FullPixel ==
    /\ fb.pc = "full"
    /\ LET f == [fb EXCEPT !.rays = fb.rays + 1,
                           !.px = SetPixels(fb.px, {<<fb.x, fb.y>>}, <<"pixel", fb.x, fb.y>>)]
       IN  fb' = LoopNext(f, fb.w, fb.h, "done")

\* lines 256-287: one iteration of the block loop (one ray, one block filled)
BlockStep ==
    /\ fb.pc = "block"
    /\ LET ps == BlockPixels(fb.x, fb.y, fb.sx, fb.sy, fb.w, fb.h)
           cx == fb.x * fb.sx + fb.sx \div 2
           cy == fb.y * fb.sy + fb.sy \div 2
           f  == [fb EXCEPT !.rays = fb.rays + 1,
                            !.empty = fb.empty + (IF ps = {} THEN 1 ELSE 0),
                            !.px = SetPixels(fb.px, ps, <<"block", cx, cy>>)]
       IN  fb' = LoopNext(f, fb.rw, fb.rh, "right")

\* lines 290-316: the right-edge pass
RightEdge ==
    /\ fb.pc = "right"
    /\ LET lastX == fb.rw * fb.sx
       IN  fb' = IF lastX < fb.w /\ fb.rw > 0
                 THEN [fb EXCEPT !.pc = "bottom", !.rays = fb.rays + 1,
                                 !.px = SetPixels(fb.px, RightEdgePixels(lastX, fb.w, fb.h),
                                                  <<"right", (fb.rw - 1) * fb.sx, 0>>)]
                 ELSE [fb EXCEPT !.pc = "bottom"]

\* lines 318-341: the bottom-edge pass
BottomEdge ==
    /\ fb.pc = "bottom"
    /\ LET lastX == fb.rw * fb.sx
           lastY == fb.rh * fb.sy
       IN  fb' = IF lastY < fb.h /\ fb.rh > 0
                 THEN [fb EXCEPT !.pc = "done", !.rays = fb.rays + 1,
                                 !.px = SetPixels(fb.px, BottomEdgePixels(lastX, lastY, fb.w, fb.h),
                                                  <<"bottom", 0, (fb.rh - 1) * fb.sy>>)]
                 ELSE [fb EXCEPT !.pc = "done"]

NextRender ==
    \/ RenderBegin /\ UNCHANGED <<cam, camLog, lp, ix, ry>>
    \/ FullPixel /\ UNCHANGED <<cam, camLog, lp, ix, ry>>
    \/ BlockStep /\ UNCHANGED <<cam, camLog, lp, ix, ry>>
    \/ RightEdge /\ UNCHANGED <<cam, camLog, lp, ix, ry>>
    \/ BottomEdge /\ UNCHANGED <<cam, camLog, lp, ix, ry>>

----------------------------------------------------------------------------
(* f32 vector and angle arithmetic in fixed point *)

\* the components of unit vectors are in thousandths (f32 fields of Vector3)
Milli == 1000

\* positions and distances are in ten-thousandths of a world unit
World == 10 * Milli

\* pi/2 in microradians (pitch and yaw are f32 radians)
HalfPi == 1570796

Pi == 2 * HalfPi

TwoPi == 4 * HalfPi

RECURSIVE IsqrtIter(_, _)
IsqrtIter(n, g) ==
    LET h == (g + n \div g) \div 2
    IN  IF h >= g THEN g ELSE IsqrtIter(n, h)

\* f32::sqrt, rounded down
Isqrt(n) == IF n <= 0 THEN 0 ELSE IsqrtIter(n, n)

\* sin on [0, pi/2]: the angle in microradians, the result in thousandths
\* (the odd Taylor polynomial up to x^9, evaluated in ten-thousandths)
SinQ(r) ==
    LET S  == 10 * Milli
        x  == RoundDiv(r, 100)
        z  == RoundDiv(x * x, S)
        t4 == S - RoundDiv(z, 72)
        t3 == S - RoundDiv(z * t4, 42 * S)
        t2 == S - RoundDiv(z * t3, 20 * S)
        t1 == S - RoundDiv(z * t2, 6 * S)
    IN  RoundDiv(RoundDiv(x * t1, S), 10)

\* f32::sin
Sin(a) ==
    LET r == a % TwoPi
    IN  IF r <= HalfPi THEN SinQ(r)
        ELSE IF r <= Pi THEN SinQ(Pi - r)
        ELSE IF r <= Pi + HalfPi THEN -SinQ(r - Pi)
        ELSE -SinQ(TwoPi - r)

\* f32::cos
Cos(a) == Sin(a + HalfPi)

RECURSIVE AsinLow(_, _, _)
\* the least angle in (lo, hi] whose sine is at least y
AsinLow(y, lo, hi) ==
    IF hi - lo <= 1 THEN hi
    ELSE LET mid == (lo + hi) \div 2
         IN  IF Sin(mid) >= y THEN AsinLow(y, lo, mid) ELSE AsinLow(y, mid, hi)

\* f32::asin of y in [-1, 1]: the middle of the angles whose sine rounds to y
Asin(y) ==
    LET a == IF y <= -Milli THEN -HalfPi ELSE AsinLow(y, -HalfPi, HalfPi)
        b == IF y >= Milli THEN HalfPi ELSE AsinLow(y + 1, -HalfPi, HalfPi)
    IN  (a + b) \div 2

\* f32::atan2(z, x)
Atan2(z, x) ==
    LET r == Isqrt(x * x + z * z)
    IN  IF r = 0 THEN 0
        ELSE IF Abs(z) <= Abs(x)
             THEN LET a == Asin(RoundDiv(z * Milli, r))
                  IN  IF x >= 0 THEN a ELSE IF z >= 0 THEN Pi - a ELSE -Pi - a
             ELSE LET b == Asin(RoundDiv(x * Milli, r))
                  IN  IF z >= 0 THEN HalfPi - b ELSE b - HalfPi

VZero == <<0, 0, 0>>

\* a * b for two f32 in thousandths
Mul(a, b) == RoundDiv(a * b, Milli)

VAdd(a, b) == <<a[1] + b[1], a[2] + b[2], a[3] + b[3]>>

VSub(a, b) == <<a[1] - b[1], a[2] - b[2], a[3] - b[3]>>

VScale(a, k) == <<Mul(a[1], k), Mul(a[2], k), Mul(a[3], k)>>

VDot(a, b) == RoundDiv(a[1] * b[1] + a[2] * b[2] + a[3] * b[3], Milli)

\* a x b before it is rounded to thousandths: the products, in millionths
VCrossMicro(a, b) ==
    <<a[2] * b[3] - a[3] * b[2], a[3] * b[1] - a[1] * b[3], a[1] * b[2] - a[2] * b[1]>>

VCross(a, b) ==
    LET c == VCrossMicro(a, b)
    IN  <<RoundDiv(c[1], Milli), RoundDiv(c[2], Milli), RoundDiv(c[3], Milli)>>

\* the scale that brings a vector to at most 20000 per component, as a float
\* keeps its relative precision whatever the magnitude
Exponent(a) == Max2(CeilDiv(Max2(Abs(a[1]), Max2(Abs(a[2]), Abs(a[3]))), 20 * Milli), 1)

\* Vector3::length
VLength(a) ==
    LET k == Exponent(a)
        b == <<RoundDiv(a[1], k), RoundDiv(a[2], k), RoundDiv(a[3], k)>>
    IN  k * Isqrt(b[1] * b[1] + b[2] * b[2] + b[3] * b[3])

\* Vector3::normalized (raymath): a zero length is replaced by 1, so the zero
\* vector is returned unchanged. The argument may be in any unit (the result,
\* in thousandths, does not depend on it).
VNormalized(a) ==
    LET k   == Exponent(a)
        b   == <<RoundDiv(a[1], k), RoundDiv(a[2], k), RoundDiv(a[3], k)>>
        len == Isqrt(b[1] * b[1] + b[2] * b[2] + b[3] * b[3])
    IN  IF len = 0 THEN VZero
        ELSE <<RoundDiv(b[1] * Milli, len), RoundDiv(b[2] * Milli, len), RoundDiv(b[3] * Milli, len)>>

WorldUp == <<0, Milli, 0>>

----------------------------------------------------------------------------
(* Camera (camera.rs) *)

\* the limit of the pitch clamp, 1.5 rad, in microradians
PitchLimit == 1500000

\* f32::clamp
ClampNone(x, lo, hi) == x

Clamp(x, lo, hi) == IF x < lo THEN lo ELSE IF x > hi THEN hi ELSE x

\* lines 39-44: forward from yaw and pitch
ForwardOf(yaw, pitch) ==
    <<Mul(Cos(pitch), Cos(yaw)), Sin(pitch), Mul(Cos(pitch), Sin(yaw))>>

\* Camera::update_basis_vectors: right is built from the camera's own up field,
\* which the previous call left at right x forward
UpdateBasisVectors(c) ==
    LET f == ForwardOf(c.yaw, c.pitch)
        r == VNormalized(VCrossMicro(f, c.up))
    IN  [c EXCEPT !.forward = f, !.center = VAdd(c.eye, VScale(f, World)),
                  !.right = r, !.up = VCross(r, f)]

\* Camera::new
CameraNew(eye, center, up) ==
    LET direction == VNormalized(VSub(center, eye))
    IN  UpdateBasisVectors([eye |-> eye, center |-> center, up |-> up,
                            forward |-> VZero, right |-> VZero,
                            yaw |-> Atan2(direction[3], direction[1]),
                            pitch |-> Asin(direction[2])])

\* Camera::rotate
CamRotate(c, dyaw, dpitch) ==
    UpdateBasisVectors([c EXCEPT !.yaw = c.yaw + dyaw,
                                 !.pitch = Clamp(c.pitch + dpitch, -PitchLimit, PitchLimit)])

\* Camera::move_forward
CamMoveForward(c, distance) ==
    UpdateBasisVectors([c EXCEPT !.eye = VAdd(c.eye, VScale(c.forward, distance))])

\* Camera::move_right
CamMoveRight(c, distance) ==
    UpdateBasisVectors([c EXCEPT !.eye = VAdd(c.eye, VScale(c.right, distance))])

\* Camera::move_up
CamMoveUp(c, distance) ==
    UpdateBasisVectors([c EXCEPT !.eye = <<c.eye[1], c.eye[2] + distance, c.eye[3]>>])

\* main.rs 666-670: the camera of the program
MainEye == <<0, 4 * World, -12 * World>>

MainCenter == <<0, 3 * World, 0>>

MainCamera == CameraNew(MainEye, MainCenter, WorldUp)

----------------------------------------------------------------------------
(* The camera driven by arbitrary calls (SpecCamera) *)

\* the number of camera operations in one run
MaxOps == 3

\* cameras as Camera::new builds them: the program's, a level one, one looking
\* down, and one looking up more steeply than the pitch limit
NewCameras ==
    { MainCamera,
      CameraNew(VZero, <<Milli, 0, 0>>, WorldUp),
      CameraNew(VZero, <<Milli, -Milli, Milli>>, WorldUp),
      CameraNew(VZero, <<Milli, 20 * Milli, 0>>, WorldUp) }

\* deltas of a rotate call: the program's 0.03, quarter and half of pi, +-10 rad
YawDeltas == {0, 30000, -HalfPi}

PitchDeltas == {0, -30000, -(HalfPi \div 2), HalfPi, 10000000, -10000000}

MoveDistances == {3000, -3000}

CamLogInit == [op |-> "new", n |-> 0, rotations |-> 0, dyaw |-> 0, dpitch |-> 0,
               yaw0 |-> 0, pitch0 |-> 0]

LpIdle == [pc |-> "idle"]

IxIdle == [pc |-> "idle"]

RyIdle == [pc |-> "idle"]

InitCamera ==
    /\ cam \in NewCameras
    /\ camLog = CamLogInit
    /\ fb = FbIdle
    /\ lp = LpIdle
    /\ ix = IxIdle
    /\ ry = RyIdle

Logged(op, dyaw, dpitch) ==
    [op |-> op, n |-> camLog.n + 1,
     rotations |-> camLog.rotations + (IF op = "rotate" THEN 1 ELSE 0),
     dyaw |-> dyaw, dpitch |-> dpitch, yaw0 |-> cam.yaw, pitch0 |-> cam.pitch]

Rotate ==
    /\ camLog.n < MaxOps
    /\ \E dyaw \in YawDeltas, dpitch \in PitchDeltas :
        /\ cam' = CamRotate(cam, dyaw, dpitch)
        /\ camLog' = Logged("rotate", dyaw, dpitch)

MoveForward ==
    /\ camLog.n < MaxOps
    /\ \E d \in MoveDistances :
        /\ cam' = CamMoveForward(cam, d)
        /\ camLog' = Logged("move_forward", 0, 0)

MoveRight ==
    /\ camLog.n < MaxOps
    /\ \E d \in MoveDistances :
        /\ cam' = CamMoveRight(cam, d)
        /\ camLog' = Logged("move_right", 0, 0)

MoveUp ==
    /\ camLog.n < MaxOps
    /\ \E d \in MoveDistances :
        /\ cam' = CamMoveUp(cam, d)
        /\ camLog' = Logged("move_up", 0, 0)

NextCamera ==
    \/ Rotate /\ UNCHANGED <<fb, lp, ix, ry>>
    \/ MoveForward /\ UNCHANGED <<fb, lp, ix, ry>>
    \/ MoveRight /\ UNCHANGED <<fb, lp, ix, ry>>
    \/ MoveUp /\ UNCHANGED <<fb, lp, ix, ry>>

----------------------------------------------------------------------------
(* main (main.rs 594-787): texture loading and the frame loop (SpecLoop) *)

\* movement_speed 0.3, in ten-thousandths
MovementSpeed == 3000

\* rotation_speed 0.03 rad, in microradians
RotationSpeed == 30000

\* MIN_, MID_ and MAX_RENDER_SCALE, in fortieths
MinRenderScale == ScaleDen \div 8

MidRenderScale == ScaleDen \div 2

MaxRenderScale == (3 * ScaleDen) \div 4

\* the frames a run may spend with a key held, and the longest still stretch
MaxKeyFrames == 2

MaxStill == 9

\* the key states a poll may return
KeySets ==
    { {}, {"W"}, {"A"}, {"E"}, {"UP"}, {"W", "S"}, {"LEFT", "RIGHT"},
      {"W", "S", "A", "D", "Q", "E", "LEFT", "RIGHT", "UP", "DOWN"} }

\* lines 703-742: the ten key tests, in the order of the source
KeyOrder == <<"W", "S", "A", "D", "Q", "E", "LEFT", "RIGHT", "UP", "DOWN">>

\* one `if window.is_key_down(k) { ... }`
KeyStep(c, keys, k) ==
    IF k \notin keys THEN c
    ELSE CASE k = "W" -> CamMoveForward(c, MovementSpeed)
           [] k = "S" -> CamMoveForward(c, -MovementSpeed)
           [] k = "A" -> CamMoveRight(c, -MovementSpeed)
           [] k = "D" -> CamMoveRight(c, MovementSpeed)
           [] k = "Q" -> CamMoveUp(c, MovementSpeed)
           [] k = "E" -> CamMoveUp(c, -MovementSpeed)
           [] k = "LEFT" -> CamRotate(c, -RotationSpeed, 0)
           [] k = "RIGHT" -> CamRotate(c, RotationSpeed, 0)
           [] k = "UP" -> CamRotate(c, 0, RotationSpeed)
           [] k = "DOWN" -> CamRotate(c, 0, -RotationSpeed)

RECURSIVE ApplyKeysFrom(_, _, _)
\* the key tests from the i-th on (each camera is computed once, then passed on)
ApplyKeysFrom(c, keys, i) ==
    IF i > Len(KeyOrder) THEN c
    ELSE CHOOSE r \in { ApplyKeysFrom(d, keys, i + 1) : d \in {KeyStep(c, keys, KeyOrder[i])} } : TRUE

ApplyKeys(c, keys) == ApplyKeysFrom(c, keys, 1)

\* line 745: (camera.eye - prev_camera_pos).length() > 0.01
PosChanged(eye, prevPos) ==
    LET d == VSub(eye, prevPos)
    IN  VLength(d) > World \div 100

\* lines 746-747: a yaw or pitch difference above 0.001 rad
AngleChanged(c, prevAngles) ==
    \/ Abs(c.yaw - prevAngles[1]) > 1000
    \/ Abs(c.pitch - prevAngles[2]) > 1000

\* line 749: the test that resets frames_since_movement
MovementDetected(c, prevPos, prevAngles, cameraMoved) ==
    PosChanged(c.eye, prevPos) \/ AngleChanged(c, prevAngles) \/ cameraMoved

\* a scale policy whose thresholds are inclusive
RenderScaleOfShifted(n) ==
    IF n <= 3 THEN MinRenderScale
    ELSE IF n <= 8 THEN MidRenderScale
    ELSE MaxRenderScale

\* lines 756-766 (ADAPTIVE_RENDER is true)
RenderScaleOf(n) ==
    IF n < 3 THEN MinRenderScale
    ELSE IF n < 8 THEN MidRenderScale
    ELSE MaxRenderScale

LpInit == [pc |-> "load", piedra |-> FALSE, objects |-> "none", keys |-> {},
           cameraMoved |-> FALSE, prevPos |-> MainEye, prevAngles |-> <<0, 0>>,
           frames_since_movement |-> 0, before |-> 0, render_scale |-> 0,
           fbState |-> "new", rendered |-> 0, keyFrames |-> 0,
           steps |-> <<>>, exit |-> "running"]

InitLoop ==
    /\ lp = LpInit
    /\ cam = MainCamera
    /\ camLog = CamLogInit
    /\ fb = FbIdle
    /\ ix = IxIdle
    /\ ry = RyIdle

\* lines 607-674: the textures are loaded (Piedra from one of its paths, or from
\* none), the scene is built or left empty, the camera and the previous pose set
LoadTextures ==
    /\ lp.pc = "load"
    /\ \E piedra \in BOOLEAN :
        lp' = [lp EXCEPT !.pc = "test", !.piedra = piedra,
                         !.objects = IF piedra THEN "diorama" ELSE "empty",
                         !.prevPos = cam.eye, !.prevAngles = <<cam.yaw, cam.pitch>>]
    /\ UNCHANGED cam

\* a close request that is examined before every step of the iteration
LoopTestAnywhere ==
    /\ lp.pc \in {"test", "input", "detect", "clear", "render", "present", "record"}
    /\ \E close \in BOOLEAN :
        lp' = IF close THEN [lp EXCEPT !.pc = "exited", !.exit = "zero"]
              ELSE IF lp.pc = "test" THEN [lp EXCEPT !.pc = "input", !.steps = <<>>]
              ELSE lp
    /\ UNCHANGED cam

\* line 699: while !window.window_should_close(); main returns when it is true.
\* `steps` lists what the iteration that starts has done
LoopTest ==
    /\ lp.pc = "test"
    /\ \E close \in BOOLEAN :
        lp' = IF close THEN [lp EXCEPT !.pc = "exited", !.exit = "zero"]
              ELSE [lp EXCEPT !.pc = "input", !.steps = <<>>]
    /\ UNCHANGED cam

\* lines 700-742: the key states move the camera and set camera_moved
Input ==
    /\ lp.pc = "input"
    /\ \E keys \in KeySets :
        /\ keys # {} => lp.keyFrames < MaxKeyFrames
        /\ keys = {} => lp.frames_since_movement < MaxStill
        /\ cam' = ApplyKeys(cam, keys)
        /\ lp' = [lp EXCEPT !.pc = "detect", !.keys = keys, !.cameraMoved = (keys # {}),
                            !.keyFrames = lp.keyFrames + (IF keys # {} THEN 1 ELSE 0),
                            !.steps = Append(lp.steps, "input")]

\* lines 745-766: movement detection and the choice of the render scale
Detect ==
    /\ lp.pc = "detect"
    /\ LET n == IF MovementDetected(cam, lp.prevPos, lp.prevAngles, lp.cameraMoved)
                THEN 0 ELSE lp.frames_since_movement + 1
       IN  lp' = [lp EXCEPT !.pc = "clear", !.before = lp.frames_since_movement,
                            !.frames_since_movement = n, !.render_scale = RenderScaleOf(n),
                            !.steps = Append(lp.steps, "detect")]
    /\ UNCHANGED cam

\* line 769: framebuffer.clear()
Clear ==
    /\ lp.pc = "clear"
    /\ lp' = [lp EXCEPT !.pc = "render", !.fbState = "cleared",
                        !.steps = Append(lp.steps, "clear")]
    /\ UNCHANGED cam

\* line 770: render_adaptive(..., render_scale)
Render ==
    /\ lp.pc = "render"
    /\ lp' = [lp EXCEPT !.pc = "present", !.fbState = "rendered", !.rendered = lp.render_scale,
                        !.steps = Append(lp.steps, "render")]
    /\ UNCHANGED cam

\* line 771: framebuffer.swap_buffers
Present ==
    /\ lp.pc = "present"
    /\ lp' = [lp EXCEPT !.pc = "record", !.fbState = "presented",
                        !.steps = Append(lp.steps, "present")]
    /\ UNCHANGED cam

\* lines 774-775: the pose of this frame becomes the previous pose
Record ==
    /\ lp.pc = "record"
    /\ lp' = [lp EXCEPT !.pc = "test", !.prevPos = cam.eye, !.prevAngles = <<cam.yaw, cam.pitch>>,
                        !.steps = Append(lp.steps, "record")]
    /\ UNCHANGED cam

NextLoop ==
    \/ LoadTextures /\ UNCHANGED <<fb, camLog, ix, ry>>
    \/ LoopTest /\ UNCHANGED <<fb, camLog, ix, ry>>
    \/ Input /\ UNCHANGED <<fb, camLog, ix, ry>>
    \/ Detect /\ UNCHANGED <<fb, camLog, ix, ry>>
    \/ Clear /\ UNCHANGED <<fb, camLog, ix, ry>>
    \/ Render /\ UNCHANGED <<fb, camLog, ix, ry>>
    \/ Present /\ UNCHANGED <<fb, camLog, ix, ry>>
    \/ Record /\ UNCHANGED <<fb, camLog, ix, ry>>

----------------------------------------------------------------------------
(* Cube::ray_intersect (cube.rs 98-166) *)

\* A ray direction is an integer vector d standing for the unit vector d/|d|,
\* and a ray parameter is the exact quotient n/d (d > 0) of a slab distance by
\* a component of the direction, so that point(t) = origin + t * d. On an axis
\* where the direction is 0 the code multiplies by 1e8 instead of dividing:
\* such a distance is kept as its multiple `big` of 1e8, and compared exactly
\* with the quotients.
TFinite(n, d) == IF d > 0 THEN [big |-> 0, n |-> n, d |-> d] ELSE [big |-> 0, n |-> -n, d |-> -d]

TBig(k) == [big |-> k, n |-> 0, d |-> 1]

TZero == TFinite(0, 1)

\* the product a * b as three digits in base 10000 (the lower two in 0 .. 9999),
\* for factors whose product does not fit the machine integer
Wide(a, b) ==
    LET B  == 10 * Milli
        c0 == (a % B) * (b % B)
        m  == (a \div B) * (b % B) + (a % B) * (b \div B) + c0 \div B
    IN  <<(a \div B) * (b \div B) + m \div B, m % B, c0 % B>>

WideLess(x, y) ==
    \/ x[1] < y[1]
    \/ x[1] = y[1] /\ x[2] < y[2]
    \/ x[1] = y[1] /\ x[2] = y[2] /\ x[3] < y[3]

\* the 1e8 that stands for 1.0 / d when |d| < 1e-8
InvDirParallel == 100000 * Milli

\* a < b for a = a.big * 1e8 + a.n / a.d and b likewise (d > 0, and n = 0,
\* d = 1 where big # 0): k * 1e8 < n / d exactly when k <= ((n - 1) div 1e8) div d,
\* and n / d < k * 1e8 exactly when k > (n div 1e8) div d
TLess(a, b) ==
    IF a.big # 0 /\ b.big # 0 THEN a.big < b.big
    ELSE IF a.big # 0 THEN a.big <= ((b.n - 1) \div InvDirParallel) \div b.d
    ELSE IF b.big # 0 THEN b.big > (a.n \div InvDirParallel) \div a.d
    ELSE WideLess(Wide(a.n, b.d), Wide(b.n, a.d))

\* f32::min and f32::max
TMin(a, b) == IF TLess(b, a) THEN b ELSE a

TMax(a, b) == IF TLess(a, b) THEN b ELSE a

\* (bound - origin) * inv_dir on one axis, inv_dir being 1e8 when |d| < 1e-8
SlabDistance(bound, o, d) == IF d = 0 THEN TBig(bound - o) ELSE TFinite(bound - o, d)

\* Intersect::empty()
Empty == [hit |-> FALSE, t |-> TZero, point |-> VZero, normal |-> VZero]

\* a ray_intersect that always reports the far crossing
HitParameterFar(tmin, tmax) == tmax

\* let t = if tmin > 0.0 { tmin } else { tmax }
HitParameter(tmin, tmax) == IF TLess(TZero, tmin) THEN tmin ELSE tmax

\* let epsilon = 1e-6, in units of 1e-7
Epsilon == 10

\* the spacing of the f32 values around a coordinate x (in ten-thousandths),
\* in units of 1e-7 and rounded down: 2^-23 of the power of two below |x|
\* (beyond 64 units, in proportion to |x|)
Ulp(x) ==
    IF Abs(x) < 2 * World THEN 1
    ELSE IF Abs(x) < 4 * World THEN 2
    ELSE IF Abs(x) < 8 * World THEN 4
    ELSE IF Abs(x) < 16 * World THEN 9
    ELSE IF Abs(x) < 32 * World THEN 19
    ELSE 38 * (Abs(x) \div (32 * World))

\* the rounding error of one coordinate of `origin + direction * t`, in units
\* of 1e-7: one spacing of the larger of the two terms, to the side `round`
\* (-1, 0 or 1) the f32 operations happened to round to
PointError(oi, pi, round) == round * Ulp(Max2(Abs(oi), Abs(pi - oi)))

\* the normal of the face the point at parameter t lies on: the tests
\* |local - half| < 1e-6 in the order +x, -x, +y, -y, +z, with -z as the rest.
\* The exact difference is 0 or far above 1e-6; the computed one adds the
\* rounding error of the point
FaceNormal(center, half, o, dir, t, round) ==
    LET OnFace(i, s) ==
            /\ Wide(o[i] - center[i] - s * half, t.d) = Wide(-t.n, dir[i])
            /\ Abs(PointError(o[i], center[i] + s * half, round)) < Epsilon
    IN  IF OnFace(1, 1) THEN <<1, 0, 0>>
        ELSE IF OnFace(1, -1) THEN <<-1, 0, 0>>
        ELSE IF OnFace(2, 1) THEN <<0, 1, 0>>
        ELSE IF OnFace(2, -1) THEN <<0, -1, 0>>
        ELSE IF OnFace(3, 1) THEN <<0, 0, 1>>
        ELSE <<0, 0, -1>>

\* lines 98-127 of ray_intersect: is_intersecting and the distance
RayParameter(cube, o, dir) ==
    LET half == cube.size \div 2
        lo   == [i \in 1 .. 3 |-> SlabDistance(cube.center[i] - half, o[i], dir[i])]
        hi   == [i \in 1 .. 3 |-> SlabDistance(cube.center[i] + half, o[i], dir[i])]
        tmin == TMax(TMax(TMin(lo[1], hi[1]), TMin(lo[2], hi[2])), TMin(lo[3], hi[3]))
        tmax == TMin(TMin(TMax(lo[1], hi[1]), TMax(lo[2], hi[2])), TMax(lo[3], hi[3]))
        t    == HitParameter(tmin, tmax)
    IN  IF TLess(tmax, TZero) \/ TLess(tmax, tmin) THEN [hit |-> FALSE, t |-> TZero]
        ELSE IF ~TLess(TZero, t) THEN [hit |-> FALSE, t |-> TZero]
        ELSE [hit |-> TRUE, t |-> t]

\* Cube::ray_intersect: the point and the normal are those of the parameter
RayIntersect(cube, o, dir, round) ==
    LET r == RayParameter(cube, o, dir)
    IN  IF ~r.hit THEN Empty
        ELSE [hit |-> TRUE, t |-> r.t,
              point |-> [i \in 1 .. 3 |-> o[i] + RoundDiv(r.t.n * dir[i], r.t.d)],
              normal |-> FaceNormal(cube.center, cube.size \div 2, o, dir, r.t, round)]

----------------------------------------------------------------------------
(* ray_intersect on one cube and arbitrary rays (SpecIntersect) *)

\* the components of a direction range over -MaxDir .. MaxDir
MaxDir == 2

\* a cube of the diorama: centre (0.5, 1.5, -2.5), size 1.0
IntersectCube == [center |-> <<World \div 2, 3 * (World \div 2), -5 * (World \div 2)>>, size |-> World]

\* origins, per axis relative to the centre: outside on either side (near, and
\* some 20 units away), on the two faces, inside, and ORIGIN_BIAS inside or
\* outside the upper face
AxisOffsets ==
    LET h == IntersectCube.size \div 2
    IN  {-3 * h, -h, 0, h - 1, h, h + 1, 41 * h}

\* the sides the f32 operations may round the hit point to
Roundings == {-1, 0, 1}

Directions == { d \in (-MaxDir .. MaxDir) \X (-MaxDir .. MaxDir) \X (-MaxDir .. MaxDir) : d # VZero }

InitIntersect ==
    /\ \E off \in AxisOffsets \X AxisOffsets \X AxisOffsets, dir \in Directions,
          round \in Roundings :
         ix = [pc |-> "ready", cube |-> IntersectCube,
               origin |-> VAdd(IntersectCube.center, off), dir |-> dir, round |-> round,
               res |-> Empty]
    /\ cam = MainCamera
    /\ camLog = CamLogInit
    /\ fb = FbIdle
    /\ lp = LpIdle
    /\ ry = RyIdle

Intersect ==
    /\ ix.pc = "ready"
    /\ ix' = [ix EXCEPT !.pc = "done", !.res = RayIntersect(ix.cube, ix.origin, ix.dir, ix.round)]

\* origins for rays parallel to a slab: per axis relative to the centre, far
\* before the cube, ORIGIN_BIAS outside the lower and the upper face, and the
\* centre
ParallelOffsets ==
    LET h == IntersectCube.size \div 2
    IN  {-(20000 * World), -h - 1, 0, h + 1}

\* rays with a direction component of 0
InitParallel ==
    /\ fb = FbIdle
    /\ cam = MainCamera
    /\ camLog = CamLogInit
    /\ lp = LpIdle
    /\ ry = RyIdle
    /\ \E off \in ParallelOffsets \X ParallelOffsets \X ParallelOffsets,
          dir \in {d \in Directions : \E i \in 1 .. 3 : d[i] = 0},
          round \in Roundings :
         ix = [pc |-> "ready", cube |-> IntersectCube,
               origin |-> VAdd(IntersectCube.center, off), dir |-> dir, round |-> round,
               res |-> Empty]

NextIntersect == Intersect /\ UNCHANGED <<fb, cam, camLog, lp, ry>>

----------------------------------------------------------------------------
(* cast_ray, cast_shadow and is_in_frustum (main.rs 52-211) *)

\* MAX_RAY_DEPTH
MaxRayDepth == 2

\* shadow intensities, in hundredths: the four values the code can produce
ShadowNone == 0

ShadowFar == 2 * 10

ShadowFull == 8 * 10

ShadowDistant == 10

\* offset_origin: the hit point moved ORIGIN_BIAS along the normal, to the side
\* the direction points to
OffsetOrigin(intersect, direction) ==
    LET dot == direction[1] * intersect.normal[1] + direction[2] * intersect.normal[2]
               + direction[3] * intersect.normal[3]
    IN  IF dot < 0 THEN VSub(intersect.point, intersect.normal)
        ELSE VAdd(intersect.point, intersect.normal)

\* reflect(incident, normal), for the axis normals ray_intersect returns
Reflect(incident, normal) ==
    LET dot == incident[1] * normal[1] + incident[2] * normal[2] + incident[3] * normal[3]
    IN  [i \in 1 .. 3 |-> incident[i] - 2 * dot * normal[i]]

\* is_in_frustum (FRUSTUM_CULLING is true)
IsInFrustum(cubeCenter, camera) ==
    LET toCube == VSub(cubeCenter, camera.eye)
    IN  IF VLength(toCube) > 35 * World THEN FALSE
        ELSE IF VDot(VNormalized(toCube), camera.forward) < -(Milli \div 2) THEN FALSE
        ELSE TRUE

\* the test of the shadow loop on one cube: the shadow ray, whose direction
\* light - point stands for light_dir, hits it at a distance (the parameter
\* times light_distance) below light_distance - 0.01
Shadows(cube, origin, toLight, lightDistance) ==
    LET r == RayParameter(cube, origin, toLight)
    IN  /\ r.hit
        /\ r.t.big = 0
        /\ WideLess(Wide(r.t.n, lightDistance), Wide(r.t.d, lightDistance - World \div 100))

\* cast_shadow
CastShadow(intersect, light, objects) ==
    LET toLight       == VSub(light, intersect.point)
        lightDistance == VLength(toLight)
        origin        == OffsetOrigin(intersect, toLight)
    IN  IF lightDistance > 25 * World THEN ShadowFar
        ELSE IF \E i \in 1 .. Len(objects) : Shadows(objects[i], origin, toLight, lightDistance)
             THEN ShadowFull
        ELSE ShadowNone

\* cast_ray, lines 129-140: the scan for the closest intersection; best.idx is
\* 0 while zbuffer is infinite
RECURSIVE ClosestFrom(_, _, _, _, _, _, _)
ClosestFrom(objects, i, o, dir, camera, round, best) ==
    IF i > Len(objects) THEN best
    ELSE IF ~IsInFrustum(objects[i].center, camera)
         THEN ClosestFrom(objects, i + 1, o, dir, camera, round, best)
    ELSE CHOOSE b \in
             { ClosestFrom(objects, i + 1, o, dir, camera, round,
                           IF r.hit /\ (best.idx = 0 \/ TLess(r.t, best.res.t))
                           THEN [idx |-> i, res |-> r] ELSE best) :
                 r \in {RayIntersect(objects[i], o, dir, round)} } :
             TRUE

\* Colours are vectors of thousandths.
\* a * (1.0 - k) + b * k
CMix(a, b, k) == VAdd(VScale(a, Milli - k), VScale(b, k))

\* procedural_sky, of a direction d that stands for d/|d|
ProceduralSky(dir) ==
    LET d     == VNormalized(<<dir[1] * Milli, dir[2] * Milli, dir[3] * Milli>>)
        t     == (d[2] + Milli) \div 2
        green == <<100, 600, 200>>
        white == <<Milli, Milli, Milli>>
        blue  == <<300, 500, Milli>>
    IN  IF t < 540 THEN CMix(green, white, (t * Milli) \div 550)
        ELSE IF t < 550 THEN white
        ELSE IF t < 800 THEN CMix(white, blue, ((t - 550) * Milli) \div 250)
        ELSE blue

\* let ambient = Vector3::new(0.1, 0.1, 0.15)
Ambient == <<100, 100, 150>>

\* the light of main: intensity 3.0, colour (255, 255, 200) / 255
LightIntensity == 3 * Milli

LightColor == <<Milli, Milli, 784>>

\* 1.0 / (1.0 + light_distance * light_distance * 0.005), in thousandths
DistanceFalloff(lightDistance) ==
    LET c == lightDistance \div 100
    IN  (2000 * Milli) \div ((2000 * Milli + c * c) \div Milli)

\* x.powf(20.0) for x in [0, 1]
Pow20(x) ==
    LET x2  == Mul(x, x)
        x4  == Mul(x2, x2)
        x5  == Mul(x4, x)
        x10 == Mul(x5, x5)
    IN  Mul(x10, x10)

\* a composite that is returned as it is
ClampNothing(c) == c

\* final_color.x.min(1.0), .y, .z
ClampColor(c) == <<Min2(c[1], Milli), Min2(c[2], Milli), Min2(c[3], Milli)>>

\* what a cast_ray that found no cube returns; `guard` tells that it returned
\* at the depth test of lines 124-126
Sky(dir, depth, guard) ==
    [kind |-> "sky", depth |-> depth, color |-> ProceduralSky(dir), calls |-> 1, guard |-> guard]

\* reflection_color and refract_color when the recursive call is not made
NoCall == [kind |-> "none", color |-> VZero, calls |-> 0, guard |-> FALSE]

\* lines 146-211 for the intersection found and the results of the two
\* recursive calls: the record of what the call found (the cube hit, the
\* intersection, the light distance, the shadow intensity, the colour), the
\* number of cast_ray invocations made, and whether one took the depth guard
Composite(idx, intersect, o, dir, objects, light, depth, reflection, refraction) ==
    LET material         == objects[idx]
        toLight          == VSub(light, intersect.point)
        lightDir         == VNormalized(toLight)
        lightDistance    == VLength(toLight)
        shadow           == IF lightDistance < 20 * World
                            THEN CastShadow(intersect, light, objects)
                            ELSE ShadowDistant
        visibility       == 100 - shadow
        falloff          == DistanceFalloff(lightDistance)
        diffuseIntensity == Max2(intersect.normal[1] * lightDir[1] + intersect.normal[2] * lightDir[2]
                                 + intersect.normal[3] * lightDir[3], 0)
        lightIntensity   == Mul((LightIntensity * visibility) \div 100, falloff)
        diffuse          == VScale(material.diffuse, Mul(diffuseIntensity, lightIntensity))
        viewDir          == VNormalized(VSub(o, intersect.point))
        reflectDir       == VNormalized(Reflect(<<-lightDir[1], -lightDir[2], -lightDir[3]>>,
                                                intersect.normal))
        specular         == IF lightDistance < 8 * World /\ depth = 0
                            THEN VScale(LightColor,
                                        Mul(Mul(Pow20(Max2(VDot(viewDir, reflectDir), 0)),
                                                lightIntensity), 200))
                            ELSE VZero
        final            == VAdd(VAdd(VAdd(VScale(diffuse, material.albedo[1] * 100),
                                           VScale(specular, material.albedo[2] * 100)),
                                      VAdd(VScale(reflection.color, material.albedo[3] * 100),
                                           VScale(refraction.color, material.albedo[4] * 100))),
                                 Ambient)
    IN  [kind |-> "hit", idx |-> idx, depth |-> depth,
         intersect |-> intersect,
         light_distance |-> lightDistance,
         shadow_intensity |-> shadow,
         reflection |-> reflection,
         refraction |-> refraction,
         color |-> ClampColor(final),
         calls |-> 1 + reflection.calls + refraction.calls,
         guard |-> reflection.guard \/ refraction.guard]

\* a depth test that lets the call at the last depth recurse once more
MayRecurseInclusive(depth, maxDepth) == depth <= maxDepth

\* depth < MAX_RAY_DEPTH, the test of both recursive calls
MayRecurse(depth, maxDepth) == depth < maxDepth

RECURSIVE CastRay(_, _, _, _, _, _, _, _)
\* lines 142-211, for the closest intersection `best` of the scan
Shade(best, o, dir, objects, light, depth, camera, round, maxDepth) ==
    IF best.idx = 0 THEN Sky(dir, depth, FALSE)
    ELSE LET intersect  == best.res
             albedo     == objects[best.idx].albedo
             reflectDir == Reflect(dir, intersect.normal)
         IN  CHOOSE res \in
                 { Composite(best.idx, intersect, o, dir, objects, light, depth, reflection, refraction) :
                     reflection \in
                         { IF albedo[3] > 0 /\ MayRecurse(depth, maxDepth)
                           THEN CastRay(OffsetOrigin(intersect, reflectDir), reflectDir,
                                        objects, light, depth + 1, camera, round, maxDepth)
                           ELSE NoCall },
                     refraction \in
                         { IF albedo[4] > 0 /\ MayRecurse(depth, maxDepth)
                           THEN CastRay(OffsetOrigin(intersect, dir), dir,
                                        objects, light, depth + 1, camera, round, maxDepth)
                           ELSE NoCall } } :
                 TRUE

\* cast_ray in a build whose MAX_RAY_DEPTH is maxDepth
CastRay(o, dir, objects, light, depth, camera, round, maxDepth) ==
    IF depth > maxDepth THEN Sky(dir, depth, TRUE)
    ELSE CHOOSE res \in
             { Shade(best, o, dir, objects, light, depth, camera, round, maxDepth) :
                 best \in {ClosestFrom(objects, 1, o, dir, camera, round,
                                        [idx |-> 0, res |-> Empty])} } :
             TRUE

----------------------------------------------------------------------------
(* One primary ray cast into a small scene (SpecRay) *)

\* the number of cubes of a scene
MaxCubes == 2

\* a position given in half world units
Half(x, y, z) == <<x * (World \div 2), y * (World \div 2), z * (World \div 2)>>

\* the albedo arrays of create_diorama, in tenths
StoneAlbedo == <<9, 1, 0, 0>>

DiamondAlbedo == <<2, 3, 5, 0>>

LeavesAlbedo == <<6, 1, 0, 3>>

\* a fully transparent material, and one that both reflects and transmits
TransparentAlbedo == <<0, 0, 0, 10>>

GlassAlbedo == <<0, 0, 5, 5>>

\* the diffuse colours of the materials of create_diorama, the cubes being
\* untextured (no modulation)
StoneDiffuse == <<800, 800, 800>>

DiamondDiffuse == <<900, 900, Milli>>

LeavesDiffuse == <<200, 700, 200>>

\* cubes of size 1.0: in front of the first camera and behind one another, one
\* above the first, one beyond 35 units, one behind the camera
SceneCubes ==
    { [center |-> Half(0, 0, 6), size |-> World, albedo |-> StoneAlbedo, diffuse |-> StoneDiffuse],
      [center |-> Half(0, 0, 6), size |-> World, albedo |-> LeavesAlbedo, diffuse |-> LeavesDiffuse],
      [center |-> Half(0, 0, 6), size |-> World, albedo |-> TransparentAlbedo, diffuse |-> StoneDiffuse],
      [center |-> Half(0, 0, 6), size |-> World, albedo |-> GlassAlbedo, diffuse |-> StoneDiffuse],
      [center |-> Half(0, 6, 12), size |-> World, albedo |-> GlassAlbedo, diffuse |-> StoneDiffuse],
      [center |-> Half(0, 0, 12), size |-> World, albedo |-> DiamondAlbedo, diffuse |-> DiamondDiffuse],
      [center |-> Half(0, 6, 6), size |-> World, albedo |-> StoneAlbedo, diffuse |-> StoneDiffuse],
      [center |-> Half(0, 0, 72), size |-> World, albedo |-> StoneAlbedo, diffuse |-> StoneDiffuse],
      [center |-> Half(0, 0, -6), size |-> World, albedo |-> StoneAlbedo, diffuse |-> StoneDiffuse] }

RECURSIVE ScenesOfLen(_)
ScenesOfLen(n) ==
    IF n = 0 THEN {<<>>}
    ELSE { Append(sc, c) : sc \in ScenesOfLen(n - 1), c \in SceneCubes }

\* scenes of one to MaxCubes cubes, in any order, no two at one place
Scenes ==
    { sc \in UNION { ScenesOfLen(n) : n \in 1 .. MaxCubes } :
        \A i, j \in 1 .. Len(sc) : i # j => sc[i].center # sc[j].center }

\* cameras at the origin looking along +z and -z, and above the first cube
\* looking down at it
RayCameras ==
    { CameraNew(VZero, Half(0, 0, 2), WorldUp),
      CameraNew(VZero, Half(0, 0, -2), WorldUp),
      CameraNew(Half(0, 4, 3), Half(0, 3, 4), WorldUp) }

\* directions of primary rays: the combinations of -1, 0, 1 that point to the
\* side of the camera's forward vector
RayDirections(camera) ==
    { d \in (-1 .. 1) \X (-1 .. 1) \X (-1 .. 1) :
        d[1] * camera.forward[1] + d[2] * camera.forward[2] + d[3] * camera.forward[3] > 0 }

\* lights above the first cube: the program's height 10, and 21, 20.5 and 26
Lights == { Half(0, 20, 6), Half(0, 42, 6), Half(0, 41, 6), Half(0, 52, 6) }

\* maxDepth is the MAX_RAY_DEPTH of the build: the program's, or the 1 of the
\* scenario of the transparent cube
InitRay ==
    /\ cam \in RayCameras
    /\ \E sc \in Scenes, dir \in RayDirections(cam), light \in Lights, round \in Roundings,
          maxDepth \in {1, MaxRayDepth} :
         ry = [pc |-> "ready", objects |-> sc, dir |-> dir, light |-> light, round |-> round,
               maxDepth |-> maxDepth, res |-> NoCall]
    /\ camLog = CamLogInit
    /\ fb = FbIdle
    /\ lp = LpIdle
    /\ ix = IxIdle

\* cast_ray(&camera.eye, &dir, objects, &light, 0, camera, ...), as
\* render_adaptive calls it
CastPrimaryRay ==
    /\ ry.pc = "ready"
    /\ \E res \in {CastRay(cam.eye, ry.dir, ry.objects, ry.light, 0, cam, ry.round, ry.maxDepth)} :
         ry' = [ry EXCEPT !.pc = "done", !.res = res]

NextRay == CastPrimaryRay /\ UNCHANGED <<fb, cam, camLog, lp, ix>>

----------------------------------------------------------------------------
(* create_diorama (main.rs 346-592) *)

\* let floor_size = 10
FloorSize == 10

\* let wall_height = 5
WallHeight == 5

\* let cube_size = 1.0
CubeSize == World

\* start_offset + x as f32 * cube_size
GridPos(i) ==
    LET start_offset == -(((FloorSize - 1) * CubeSize) \div 2)
    IN  start_offset + i * CubeSize

DiamondSpots == {<<2, 3>>, <<7, 2>>, <<4, 6>>, <<8, 7>>}

TreePositions == << <<1, 1>>, <<8, 2>>, <<2, 8>> >>

\* Cube::with_texture(center, cube_size, material, texture): the material and
\* the texture go together and are named by the texture
WithTexture(center, texture) == [center |-> center, size |-> CubeSize, texture |-> texture]

\* the index pairs of `for a in a0..a1 { for b in b0..b1 {`, in order
LoopPairs(a0, a1, b0, b1) ==
    [k \in 1 .. (a1 - a0) * (b1 - b0) |->
        <<a0 + ((k - 1) \div (b1 - b0)), b0 + ((k - 1) % (b1 - b0))>>]

\* lines 403-429: the bottom floor, with a diamond cube at a diamond spot if
\* the diamond texture is there and a stone cube otherwise
BottomFloor(diamante) ==
    LET xz == LoopPairs(0, FloorSize, 0, FloorSize)
    IN  [k \in DOMAIN xz |->
            WithTexture(<<GridPos(xz[k][1]), -(CubeSize \div 2), GridPos(xz[k][2])>>,
                        IF xz[k] \in DiamondSpots /\ diamante THEN "diamante" ELSE "piedra")]

\* cube_size / 2.0 + y as f32 * cube_size
WallY(y) == CubeSize \div 2 + y * CubeSize

\* lines 433-446 and 449-462: the left (x = 0) and right (x = floor_size - 1) walls
SideWall(x) ==
    LET yz == LoopPairs(0, WallHeight, 0, FloorSize)
    IN  [k \in DOMAIN yz |->
            WithTexture(<<GridPos(x), WallY(yz[k][1]), GridPos(yz[k][2])>>, "piedra")]

\* lines 465-478: the back wall
BackWall ==
    LET yx == LoopPairs(0, WallHeight, 1, FloorSize - 1)
    IN  [k \in DOMAIN yx |->
            WithTexture(<<GridPos(yx[k][2]), WallY(yx[k][1]), GridPos(FloorSize - 1)>>, "piedra")]

\* let top_y = cube_size / 2.0 + wall_height as f32 * cube_size
TopY == CubeSize \div 2 + WallHeight * CubeSize

\* in_hole, lines 485-496
InHole(xz) ==
    LET hole_start_x == (FloorSize \div 2) - 2
        hole_start_z == (FloorSize \div 2) - 1
    IN  /\ xz[1] >= hole_start_x /\ xz[1] < hole_start_x + 4
        /\ xz[2] >= hole_start_z /\ xz[2] < hole_start_z + 3

\* lines 493-510: the top floor
TopFloor ==
    LET xz == SelectSeq(LoopPairs(0, FloorSize, 0, FloorSize), LAMBDA p : ~InHole(p))
    IN  [k \in DOMAIN xz |-> WithTexture(<<GridPos(xz[k][1]), TopY, GridPos(xz[k][2])>>, "tierra")]

\* lines 532-541: the trunk of the tree at (x, z)
Trunk(x, z) ==
    [k \in 1 .. 3 |-> WithTexture(<<x, TopY + CubeSize + (k - 1) * CubeSize, z>>, "tronco")]

\* let leaves_center_y = top_y + cube_size + 2.0 * cube_size
LeavesCenterY == TopY + CubeSize + 2 * CubeSize

\* the (dy, dx, dz) of `for dy in 1..3 { for dx in -1..=1 { for dz in -1..=1 {`
LeafOffsets ==
    [k \in 1 .. 18 |-> <<1 + ((k - 1) \div 9), (((k - 1) % 9) \div 3) - 1, ((k - 1) % 3) - 1>>]

\* lines 547-572: the leaves of the tree at (x, z)
Leaves(x, z) ==
    LET \* lines 555-562: a corner of the top layer is skipped
        LeafKept(d) == ~(Abs(d[2]) = 1 /\ Abs(d[3]) = 1 /\ d[1] = 2 /\ ~(d[2] = 0 /\ d[3] = 0))
        ds == SelectSeq(LeafOffsets, LeafKept)
    IN  [k \in DOMAIN ds |->
            WithTexture(<<x + ds[k][2] * CubeSize, LeavesCenterY + (ds[k][1] - 1) * CubeSize,
                          z + ds[k][3] * CubeSize>>, "hojas")]

\* lines 527-582: one tree, the trunk, the leaves and the crown leaf at
\* crown_y = leaves_center_y + 1.0 * cube_size
Tree(k) ==
    LET x == GridPos(TreePositions[k][1])
        z == GridPos(TreePositions[k][2])
    IN  Trunk(x, z) \o Leaves(x, z)
            \o <<WithTexture(<<x, LeavesCenterY + CubeSize, z>>, "hojas")>>

\* the arguments of create_diorama: which of the optional textures are Some
InitDiorama ==
    /\ \E diamante \in BOOLEAN, tierra \in BOOLEAN, tronco \in BOOLEAN, hojas \in BOOLEAN :
         lp = [pc |-> "floor", diamante |-> diamante, tierra |-> tierra, tronco |-> tronco,
               hojas |-> hojas, tree |-> 1, cubes |-> <<>>]
    /\ cam = MainCamera
    /\ camLog = CamLogInit
    /\ fb = FbIdle
    /\ ix = IxIdle
    /\ ry = RyIdle

BuildBottomFloor ==
    /\ lp.pc = "floor"
    /\ lp' = [lp EXCEPT !.pc = "left", !.cubes = lp.cubes \o BottomFloor(lp.diamante)]

BuildLeftWall ==
    /\ lp.pc = "left"
    /\ lp' = [lp EXCEPT !.pc = "right", !.cubes = lp.cubes \o SideWall(0)]

BuildRightWall ==
    /\ lp.pc = "right"
    /\ lp' = [lp EXCEPT !.pc = "back", !.cubes = lp.cubes \o SideWall(FloorSize - 1)]

BuildBackWall ==
    /\ lp.pc = "back"
    /\ lp' = [lp EXCEPT !.pc = "top", !.cubes = lp.cubes \o BackWall]

\* lines 481-514: if let Some(tierra_tex) = tierra_texture
BuildTopFloor ==
    /\ lp.pc = "top"
    /\ lp' = [lp EXCEPT !.pc = "trees",
                        !.cubes = IF lp.tierra THEN lp.cubes \o TopFloor ELSE lp.cubes]

\* lines 517-588: if let (Some(tronco_tex), Some(hojas_tex)), one tree a step
BuildTree ==
    /\ lp.pc = "trees"
    /\ lp' = IF lp.tronco /\ lp.hojas
             THEN [lp EXCEPT !.cubes = lp.cubes \o Tree(lp.tree),
                             !.tree = lp.tree + 1,
                             !.pc = IF lp.tree = Len(TreePositions) THEN "done" ELSE "trees"]
             ELSE [lp EXCEPT !.pc = "done"]

NextDiorama ==
    \/ BuildBottomFloor /\ UNCHANGED <<fb, cam, camLog, ix, ry>>
    \/ BuildLeftWall /\ UNCHANGED <<fb, cam, camLog, ix, ry>>
    \/ BuildRightWall /\ UNCHANGED <<fb, cam, camLog, ix, ry>>
    \/ BuildBackWall /\ UNCHANGED <<fb, cam, camLog, ix, ry>>
    \/ BuildTopFloor /\ UNCHANGED <<fb, cam, camLog, ix, ry>>
    \/ BuildTree /\ UNCHANGED <<fb, cam, camLog, ix, ry>>

----------------------------------------------------------------------------
(* Specifications *)

InitRender ==
    /\ RenderStart
    /\ cam = MainCamera
    /\ camLog = CamLogInit
    /\ lp = LpIdle
    /\ ix = IxIdle
    /\ ry = RyIdle

SpecRender == InitRender /\ [][NextRender]_vars

SpecCamera == InitCamera /\ [][NextCamera]_vars

SpecLoop == InitLoop /\ [][NextLoop]_vars

SpecIntersect == InitIntersect /\ [][NextIntersect]_vars

SpecParallel == InitParallel /\ [][NextIntersect]_vars

SpecDiorama == InitDiorama /\ [][NextDiorama]_vars

SpecRay == InitRay /\ [][NextRay]_vars

----------------------------------------------------------------------------
(* Properties *)

\* C1: when render_adaptive returns, every pixel of the framebuffer has been
\* written exactly once, on the full-resolution path and on the block path
EveryPixelOnce ==
    fb.pc = "done" => \A p \in Pixels(fb.w, fb.h) : fb.px[p].n = 1

\* a reduced-scale render of a framebuffer of several blocks has returned
BlockRenderDone ==
    /\ fb.pc = "done" /\ fb.s < FullResScale
    /\ fb.rw > 1 /\ fb.rh > 1 /\ fb.sx > 1 /\ fb.sy > 1
    /\ \E p \in Pixels(fb.w, fb.h) : fb.px[p].ray[1] = "block"

\* C7: a rotate call adds its pitch delta and clamps the sum to [-1.5, 1.5], so
\* that after any sequence with a rotation in it the pitch is within the limit;
\* the yaw is the plain sum, never clamped or wrapped
PitchClampedYawFree ==
    /\ camLog.rotations > 0 => (cam.pitch >= -1500000 /\ cam.pitch <= 1500000)
    /\ camLog.op = "rotate" =>
          /\ cam.yaw = camLog.yaw0 + camLog.dyaw
          /\ cam.pitch = IF camLog.pitch0 + camLog.dpitch > 1500000 THEN 1500000
                         ELSE IF camLog.pitch0 + camLog.dpitch < -1500000 THEN -1500000
                         ELSE camLog.pitch0 + camLog.dpitch

\* a rotation was cut at the upper limit while the yaw had left [-pi, pi]
PitchCutYawBeyondPi ==
    /\ camLog.op = "rotate"
    /\ camLog.pitch0 + camLog.dpitch > 1500000
    /\ cam.pitch = 1500000
    /\ cam.yaw < -Pi

\* two vectors in thousandths agree to 0.02 per component
Near(a, b) == \A i \in 1 .. 3 : Abs(a[i] - b[i]) <= 2 * 10

\* C8: after construction and after every operation the basis is a function
\* of yaw and pitch alone: forward is (cos p cos y, sin p, cos p sin y), right
\* is normalize(forward x world up), and up is right x forward
BasisFromYawPitch ==
    LET f == ForwardOf(cam.yaw, cam.pitch)
        r == VNormalized(VCrossMicro(f, WorldUp))
    IN  /\ cam.forward = f
        /\ Near(cam.right, r)
        /\ Near(cam.up, VCross(r, f))

\* C9: after every camera operation forward, right and up are unit vectors,
\* orthogonal to one another (to the rounding of the fixed point, 0.02), and
\* right is not the zero vector
OrthonormalBasis ==
    camLog.n > 0 =>
        /\ cam.right # VZero
        /\ Abs(VLength(cam.forward) - Milli) <= 2 * 10
        /\ Abs(VLength(cam.right) - Milli) <= 2 * 10
        /\ Abs(VLength(cam.up) - Milli) <= 2 * 10
        /\ Abs(VDot(cam.forward, cam.right)) <= 2 * 10
        /\ Abs(VDot(cam.forward, cam.up)) <= 2 * 10
        /\ Abs(VDot(cam.right, cam.up)) <= 2 * 10

\* C3: when Piedra.png loads from none of its paths, the program ends with a
\* non-zero exit status and never reaches the frame loop
MissingTextureAborts ==
    (lp.pc # "load" /\ ~lp.piedra) => (lp.pc = "exited" /\ lp.exit = "nonzero")

\* C4: frames_since_movement is reset to 0 exactly when the pose of this frame
\* differs from the recorded one (position by more than 0.01, yaw or pitch by
\* more than 0.001), and is incremented otherwise, whatever keys are held
ResetOnlyOnPoseChange ==
    lp.pc = "clear" =>
        lp.frames_since_movement =
            IF PosChanged(cam.eye, lp.prevPos) \/ AngleChanged(cam, lp.prevAngles)
            THEN 0 ELSE lp.before + 1

\* C5: the scale of a frame is 0.125 while the counter, as movement detection
\* of this frame left it, is below 3, 0.5 from 3 to 7, and 0.75 from 8 on, and
\* it is the scale render_adaptive is called with; in a frame that does not
\* reset the counter the counter is one more than before and the scale is not
\* below that of the previous frame
ScalePolicy ==
    /\ (lp.pc = "clear" /\ lp.frames_since_movement > 0) =>
          /\ lp.frames_since_movement = lp.before + 1
          /\ lp.render_scale >= lp.rendered
    /\ lp.pc \in {"clear", "render", "present", "record"} =>
          /\ lp.frames_since_movement < 3 => 8 * lp.render_scale = ScaleDen
          /\ (lp.frames_since_movement >= 3 /\ lp.frames_since_movement < 8) =>
                2 * lp.render_scale = ScaleDen
          /\ lp.frames_since_movement >= 8 => 4 * lp.render_scale = 3 * ScaleDen
    /\ lp.pc \in {"present", "record"} => lp.rendered = lp.render_scale

\* the eighth still frame after a movement was rendered at 0.75
StillFrameAtMaxScale ==
    /\ lp.pc = "present"
    /\ lp.keyFrames > 0
    /\ lp.frames_since_movement = 8
    /\ 4 * lp.rendered = 3 * ScaleDen

\* the point origin + (num/den) * dir lies in the closed cube (den > 0)
InCube(cube, o, dir, num, den) ==
    \A i \in 1 .. 3 :
        /\ den * (cube.center[i] - cube.size \div 2) <= den * o[i] + num * dir[i]
        /\ den * o[i] + num * dir[i] <= den * (cube.center[i] + cube.size \div 2)

\* the point origin + (num/den) * dir lies in the open interior of the cube
InsideCube(cube, o, dir, num, den) ==
    \A i \in 1 .. 3 :
        /\ den * (cube.center[i] - cube.size \div 2) < den * o[i] + num * dir[i]
        /\ den * o[i] + num * dir[i] < den * (cube.center[i] + cube.size \div 2)

\* the parameters at which the ray crosses the six face planes, as <<num, den>>
Crossings(cube, o, dir) ==
    { <<(cube.center[i] + s * (cube.size \div 2) - o[i]) * (IF dir[i] > 0 THEN 1 ELSE -1), Abs(dir[i])>> :
        i \in {j \in 1 .. 3 : dir[j] # 0}, s \in {-1, 1} }

\* no point of the ray at a parameter >= 0 lies in the cube: the cube is behind
\* the origin, or the line misses it (the ray meets a convex body in a segment
\* that starts at the origin or at a crossing of a face plane)
RayMissesCube(cube, o, dir) ==
    /\ ~InCube(cube, o, dir, 0, 1)
    /\ \A c \in Crossings(cube, o, dir) : c[1] > 0 => ~InCube(cube, o, dir, c[1], c[2])

\* the ray runs through the interior of the cube at some parameter > 0 (halfway
\* between two of its crossings, or between the origin and a crossing)
RayEntersCube(cube, o, dir) ==
    \E a \in Crossings(cube, o, dir) \cup {<<0, 1>>}, b \in Crossings(cube, o, dir) :
        /\ a[1] * b[2] + b[1] * a[2] > 0
        /\ InsideCube(cube, o, dir, a[1] * b[2] + b[1] * a[2], 2 * a[2] * b[2])

\* the origin lies on a face and the ray points out of it
OnFaceOutward(cube, o, dir) ==
    /\ InCube(cube, o, dir, 0, 1)
    /\ \E i \in 1 .. 3 :
        \/ o[i] = cube.center[i] + cube.size \div 2 /\ dir[i] > 0
        \/ o[i] = cube.center[i] - cube.size \div 2 /\ dir[i] < 0

CubesOnRay == { i \in 1 .. Len(ry.objects) : RayParameter(ry.objects[i], cam.eye, ry.dir).hit }

\* C2: cast_ray tests every cube of the scene, none being culled: it returns
\* the sky exactly when the ray intersects no cube, and otherwise shades an
\* intersected cube such that no other is intersected at a smaller distance
NearestOfAllCubes ==
    ry.pc = "done" =>
        IF CubesOnRay = {} THEN ry.res.kind = "sky"
        ELSE /\ ry.res.kind = "hit"
             /\ ry.res.idx \in CubesOnRay
             /\ \A j \in CubesOnRay :
                  ~TLess(RayParameter(ry.objects[j], cam.eye, ry.dir).t, ry.res.intersect.t)

\* some cube lies between the hit point of the primary ray and the light,
\* closer to the point than the light by more than 0.01
Occluded ==
    LET toLight == VSub(ry.light, ry.res.intersect.point)
    IN  \E i \in 1 .. Len(ry.objects) :
            Shadows(ry.objects[i], OffsetOrigin(ry.res.intersect, toLight), toLight,
                    VLength(toLight))

\* C6: the shadow intensity of a hit is 0.8 when a cube occludes the light and
\* 0 when none does, and 0.2 only at more than 25 units from the light
ShadowValues ==
    (ry.pc = "done" /\ ry.res.kind = "hit") =>
        \/ ry.res.shadow_intensity = (IF Occluded THEN 8 * 10 ELSE 0)
        \/ ry.res.shadow_intensity = 2 * 10 /\ ry.res.light_distance > 25 * World

\* the hit point relative to the centre, times the denominator of t
LocalTimesDen(cube, o, dir, t) == [i \in 1 .. 3 |-> t.d * (o[i] - cube.center[i]) + t.n * dir[i]]

\* the unit vector of the axis on which |L| is largest (X before Y before Z
\* on a tie), with the sign of L on that axis
LargestAxisNormal(L) ==
    LET i == CHOOSE a \in 1 .. 3 :
                 /\ \A b \in 1 .. 3 : Abs(L[b]) <= Abs(L[a])
                 /\ \A b \in 1 .. a - 1 : Abs(L[b]) < Abs(L[a])
    IN  [a \in 1 .. 3 |-> IF a # i THEN 0 ELSE IF L[a] < 0 THEN -1 ELSE 1]

\* C11: the normal of a hit is the unit vector of the axis on which the local
\* point L = P - C is largest in absolute value, with the sign of L there and
\* ties resolved X, Y, Z: the outward normal of the face that was hit
NormalOfLargestAxis ==
    (ix.pc = "done" /\ ix.res.hit) =>
        ix.res.normal = LargestAxisNormal(LocalTimesDen(ix.cube, ix.origin, ix.dir, ix.res.t))

\* the same with a hit point computed without rounding error
NormalOfLargestAxisExact ==
    (ix.pc = "done" /\ ix.res.hit /\ ix.round = 0) =>
        ix.res.normal = LargestAxisNormal(LocalTimesDen(ix.cube, ix.origin, ix.dir, ix.res.t))

\* C12: alone in the scene and with MAX_DEPTH = 1, a fully transparent cube
\* (albedo [0, 0, 0, 1]) is invisible: a primary ray that hits it returns the
\* sky colour of its direction plus the ambient term, clamped
TransparentCubeInvisible ==
    (/\ ry.pc = "done"
     /\ ry.maxDepth = 1
     /\ Len(ry.objects) = 1
     /\ ry.objects[1].albedo = TransparentAlbedo
     /\ ry.res.kind = "hit") =>
        ry.res.color = ClampColor(VAdd(ProceduralSky(ry.dir), Ambient))

\* the results of the invocations of cast_ray made for a result
RECURSIVE Returned(_)
Returned(res) ==
    IF res.kind = "none" THEN {}
    ELSE IF res.kind = "sky" THEN {res}
    ELSE {res} \cup Returned(res.reflection) \cup Returned(res.refraction)

\* C14: every colour cast_ray returns, at any depth, the sky or a clamped
\* composite, has its three components in [0, 1]
ColorsInUnitRange ==
    ry.pc = "done" =>
        \A r \in Returned(ry.res) : \A i \in 1 .. 3 : 0 <= r.color[i] /\ r.color[i] <= Milli

\* a lit composite at depth 0 that reaches 1.0, over a composite at depth 1
BrightCompositeOverComposite ==
    /\ ry.pc = "done" /\ ry.res.kind = "hit"
    /\ ry.res.shadow_intensity = ShadowNone
    /\ \E i \in 1 .. 3 : ry.res.color[i] = Milli
    /\ ry.res.refraction.kind = "hit" \/ ry.res.reflection.kind = "hit"

\* C17: a primary ray (depth 0) makes cast_ray recurse only from a depth below
\* MAX_RAY_DEPTH = 2 and to the next depth, so that no invocation is deeper
\* than 2, none returns at the depth guard, and there are at most 7 of them
RecursionBounded ==
    (ry.pc = "done" /\ ry.maxDepth = MaxRayDepth) =>
        /\ ry.res.depth = 0
        /\ \A r \in Returned(ry.res) :
              /\ r.depth <= MaxRayDepth
              /\ ~r.guard
              /\ r.kind = "hit" =>
                    \A c \in {r.reflection, r.refraction} :
                        c.kind # "none" => r.depth < MaxRayDepth /\ c.depth = r.depth + 1
        /\ ry.res.calls <= 1 + 2 + 4

\* a primary ray whose hit and both of whose secondary hits reflect and transmit
SevenInvocations ==
    /\ ry.pc = "done" /\ ry.maxDepth = MaxRayDepth
    /\ ry.res.calls = 7

\* C13: on the block path every pixel (px, py) that has been set carries the
\* colour of the one ray through the centre (x * step_x + step_x / 2,
\* y * step_y + step_y / 2) of its block x = px div step_x, y = py div step_y,
\* never that of another block or of an edge pass, and at the end every pixel
\* has been set
PixelHasRayOfItsBlock ==
    (fb.pc \in {"block", "right", "bottom", "done"} /\ fb.s < FullResScale) =>
        \A p \in Pixels(fb.w, fb.h) :
            /\ fb.pc = "done" => fb.px[p].n > 0
            /\ fb.px[p].n > 0 =>
                   fb.px[p].ray = <<"block", (p[1] \div fb.sx) * fb.sx + fb.sx \div 2,
                                             (p[2] \div fb.sy) * fb.sy + fb.sy \div 2>>

\* a finished block render of several blocks of several pixels, the last
\* column of blocks cut by the framebuffer
CutBlocksRendered ==
    /\ fb.pc = "done" /\ fb.s < FullResScale
    /\ fb.rw >= 2 /\ fb.sx >= 2 /\ fb.sy >= 2
    /\ fb.rw * fb.sx > fb.w

\* C19: on the block path every block for which a ray is cast starts inside
\* the framebuffer (x * step_x < W and y * step_y < H), so that its ray colours
\* at least one pixel
EveryTracedBlockCoversPixels ==
    /\ fb.pc = "block" => fb.x * fb.sx < fb.w /\ fb.y * fb.sy < fb.h
    /\ fb.empty = 0

\* C16: on a ray parallel to a slab (direction component 0 on an axis), an
\* origin whose coordinate on that axis is outside the extent of the cube gives
\* no hit whatever the other components are, and an origin inside the cube
\* gives a hit with t > 0 on the boundary of the cube
ParallelSlabTest ==
    ix.pc = "done" =>
        LET c == ix.cube
            h == ix.cube.size \div 2
        IN  /\ (\E i \in 1 .. 3 :
                   /\ ix.dir[i] = 0
                   /\ ix.origin[i] < c.center[i] - h \/ ix.origin[i] > c.center[i] + h)
                => ~ix.res.hit
            /\ ((\E i \in 1 .. 3 : ix.dir[i] = 0) /\ InsideCube(c, ix.origin, ix.dir, 0, 1))
                => /\ ix.res.hit /\ ix.res.t.big = 0 /\ ix.res.t.n > 0
                   /\ InCube(c, ix.origin, ix.dir, ix.res.t.n, ix.res.t.d)
                   /\ ~InsideCube(c, ix.origin, ix.dir, ix.res.t.n, ix.res.t.d)

\* the steps of one iteration of the main loop
FrameSteps == <<"input", "detect", "clear", "render", "present", "record">>

\* what an iteration has done is a beginning of FrameSteps, all of it when the
\* loop test is reached again, and the loop exits only before the first or
\* after a whole iteration, the framebuffer presented
WholeFrames ==
    lp.pc # "idle" =>
        /\ Len(lp.steps) <= Len(FrameSteps)
        /\ lp.steps = SubSeq(FrameSteps, 1, Len(lp.steps))
        /\ lp.pc \in {"test", "exited"} => lp.steps \in {<<>>, FrameSteps}
        /\ (lp.pc \in {"test", "exited"} /\ lp.steps = FrameSteps) => lp.fbState = "presented"
        /\ lp.pc = "record" => lp.fbState = "presented"

\* from the clear to the present of a frame no step changes the camera
CameraHeld == lp.pc \in {"clear", "render", "present"} => cam' = cam

\* C18: every iteration of the main loop does, in this order, the input and
\* camera update, the movement detection and choice of scale, the clear, the
\* render, the present and the recording of the pose; the close request is
\* examined only between iterations, so that a frame that is started is
\* cleared, rendered and presented before the loop exits; and the camera is
\* not changed between the clear and the present of a frame
FrameStepsInOrder == []WholeFrames /\ [][CameraHeld]_vars

\* the loop left after a whole frame in which the camera was moved
ExitAfterMovedFrame ==
    /\ lp.pc = "exited" /\ lp.steps = FrameSteps
    /\ cam # MainCamera

\* the scene create_diorama builds when every texture is there
FullDiorama ==
    BottomFloor(TRUE) \o SideWall(0) \o SideWall(FloorSize - 1) \o BackWall \o TopFloor
        \o Tree(1) \o Tree(2) \o Tree(3)

\* the texture of the cube is among those given
TextureGiven(cube) ==
    \/ cube.texture = "piedra"
    \/ cube.texture = "diamante" /\ lp.diamante
    \/ cube.texture = "tierra" /\ lp.tierra
    \/ cube.texture = "tronco" /\ lp.tronco
    \/ cube.texture = "hojas" /\ lp.hojas

\* C15: with some of the optional textures missing, create_diorama builds the
\* full scene without exactly the cubes that use a missing texture (the four
\* diamond cubes, the trunk cubes, the leaf cubes, the top floor), every other
\* cube unchanged
MissingTextureOmitsItsCubes ==
    lp.pc = "done" => lp.cubes = SelectSeq(FullDiorama, TextureGiven)

\* C20: with all textures present, no two cubes of the scene have the same
\* centre
DistinctCentres ==
    (lp.pc = "done" /\ lp.diamante /\ lp.tierra /\ lp.tronco /\ lp.hojas) =>
        \A i, j \in 1 .. Len(lp.cubes) : i # j => lp.cubes[i].center # lp.cubes[j].center

====
